---- MODULE Spec2Model ----
(***************************************************************************)
(* Model of the INFRA-KB-QUALITY-CHECKER evaluation engine:                *)
(*   scripts/evaluation_metrics.py  the four scorers and their aggregator  *)
(*   scripts/check_kb_quality.py    the batch runner and the summary       *)
(*   app/streamlit_dashboard.py     the dashboard's submission handler     *)
(*                                                                         *)
(* Scores are held in thousandths (0.333 is 333), so round(x, 3) is a      *)
(* rounding of a rational to an integer.  Texts are sequences of tokens:   *)
(* a token is one character, or one word that the code only ever treats    *)
(* as a whole (a score label, RELEVANT, NONE).                             *)
(***************************************************************************)
EXTENDS Integers, Sequences, FiniteSets, TLC

VARIABLES
    pc,                 \* position of the running program or call
    retrieved_docs,     \* the retrieved items of the question being evaluated
    answer,             \* the judge's latest reply (the scorers' local `answer`)
    context_relevancy,  \* <<>> until calculate_context_relevancy returned, then <<score>>
    completeness_result,\* <<>> or <<[score, breakdown]>>
    faithfulness,       \* <<>> or <<score>>
    relevance_results,  \* calculate_precision_at_k's list of verdicts so far
    precision_result,   \* <<>> or <<the dict calculate_precision_at_k returns>>
    fault,              \* the exception that escaped, "none" while there is none
    qi,                 \* batch loop: index in test_questions of the current question
    all_results,        \* batch loop: the results appended so far
    summary,            \* <<>> or <<the dict generate_summary_report returned>>
    chat_history,       \* dashboard: st.session_state.chat_history
    caller,             \* who runs the scorers: "batch", "dashboard", or "call" (a call on its own)
    fn                  \* caller = "call": the function called, "none" before the call

vars == <<fn, caller, pc, retrieved_docs, answer, context_relevancy, completeness_result,
          faithfulness, relevance_results, precision_result, fault, qi,
          all_results, summary, chat_history>>

----------------------------------------------------------------------------
(* Bounds of the model.                                                    *)

\* longest list of retrieved items given to a scorer called on its own
MaxDocs == 4
\* longest judge reply (in tokens) to the relevancy prompt
MaxRelevancyReply == 4
\* longest judge reply (in tokens) to the completeness and faithfulness prompts
MaxScoreReply == 6
\* longest judge reply (in tokens) to one precision prompt
MaxPrecisionReply == 2
\* longest sequence of evaluations given to generate_summary_report on its own
MaxResults == 4
\* dashboard: submissions stop once chat_history holds this many entries
MaxHistory == 2

----------------------------------------------------------------------------
(* Text helpers: what str.strip, str.upper, `in`, str.split and the        *)
(* regular expressions do on token sequences.                              *)

Min(a, b) == IF a < b THEN a ELSE b

\* sequences over S of length at most n
SeqsUpTo(S, n) == UNION {[1..m -> S] : m \in 0..n}

IsSpace(c) == c = " "

Digits == {"0", "8"}

\* the characters of the class [\d.]
NumChars == Digits \cup {"."}

DigitValue(c) == IF c = "8" THEN 8 ELSE 0

\* str.upper on a token
UpperTok(c) ==
    CASE c = "none" -> "NONE"
      [] c = "relevant" -> "RELEVANT"
      [] OTHER -> c

Upper(s) == [i \in 1..Len(s) |-> UpperTok(s[i])]

\* str.strip: drop leading and trailing whitespace
RECURSIVE LStrip(_)
LStrip(s) == IF s # <<>> /\ IsSpace(Head(s)) THEN LStrip(Tail(s)) ELSE s

RECURSIVE RStrip(_)
RStrip(s) ==
    IF s # <<>> /\ IsSpace(s[Len(s)]) THEN RStrip(SubSeq(s, 1, Len(s) - 1)) ELSE s

Strip(s) == RStrip(LStrip(s))

\* Python's `pat in s` on strings
Contains(s, pat) ==
    \E i \in 1..(Len(s) - Len(pat) + 1) : SubSeq(s, i, i + Len(pat) - 1) = pat

\* end (exclusive) of the longest run of characters of class C starting at i
RECURSIVE RunEnd(_, _, _)
RunEnd(s, i, C) == IF i <= Len(s) /\ s[i] \in C THEN RunEnd(s, i + 1, C) ELSE i

\* round(num/den, 3 decimals) with num/den already in thousandths: the nearest
\* integer, a tie going to the even one (Python 3's documented round()).  At an
\* exact decimal tie the float's binary representation decides in Python, so the
\* claims below accept either neighbour there.
round3(num, den) ==
    LET q == num \div den
        r == num % den
    IN  IF 2 * r < den THEN q
        ELSE IF 2 * r > den THEN q + 1
        ELSE IF q % 2 = 0 THEN q ELSE q + 1

----------------------------------------------------------------------------
(* Retrieved items.  A RetrievedItem is {text, score}; the text is a       *)
(* sequence of characters: "s" any character of a sentence, "." the        *)
(* terminator the code splits on, " " whitespace.                          *)

KnowledgeBase ==
    { [text |-> <<"s", ".", " ">>, score |-> 900],   \* one sentence, then a blank segment
      [text |-> <<".", " ">>, score |-> 700] }       \* only empty and blank segments

DocLists == SeqsUpTo(KnowledgeBase, MaxDocs)

\* str.split('.'): the segments between terminators, empty ones included
RECURSIVE Split(_, _)
Split(s, sep) ==
    LET e == RunEnd(s, 1, {c \in {s[i] : i \in 1..Len(s)} : c # sep})
    IN  IF e > Len(s) THEN <<s>>
        ELSE <<SubSeq(s, 1, e - 1)>> \o Split(SubSeq(s, e + 1, Len(s)), sep)

\* len([s for s in doc['text'].split('.') if s.strip()])
SentenceCount(text) ==
    LET segs == Split(text, ".")
    IN  Cardinality({i \in 1..Len(segs) : Strip(segs[i]) # <<>>})

\* total_sentences: the sum over the retrieved items
RECURSIVE TotalSentences(_)
TotalSentences(docs) ==
    IF docs = <<>> THEN 0
    ELSE SentenceCount(Head(docs).text) + TotalSentences(Tail(docs))

\* CountNumbers counting every digit, not every run of digits
CountDigits(s) == Cardinality({i \in 1..Len(s) : s[i] \in Digits})

\* len(re.findall(r'\d+', answer)): the number of maximal runs of digits
RECURSIVE CountNumbers(_)
CountNumbers(s) ==
    IF s = <<>> THEN 0
    ELSE IF Head(s) \in Digits
         THEN 1 + CountNumbers(SubSeq(s, RunEnd(s, 1, Digits), Len(s)))
         ELSE CountNumbers(Tail(s))

----------------------------------------------------------------------------
(* The scorers of evaluation_metrics.py, as functions of their inputs and  *)
(* of the judge's reply.  Each yields [raised, value]: raised is "none",   *)
(* or the name of the exception the call raises.                           *)

Returned(v) == [raised |-> "none", value |-> v]
Raised(e) == [raised |-> e, value |-> 0]

\* calculate_context_relevancy without its total_sentences == 0 guard
calculate_context_relevancy_unguarded(docs, reply) ==
    LET stripped == Strip(reply)
        total_sentences == TotalSentences(docs)
        relevant_count ==
            IF Upper(stripped) = <<"NONE">> THEN 0 ELSE CountNumbers(stripped)
    IN  IF total_sentences = 0 THEN Raised("ZeroDivisionError")
        ELSE Returned(round3(1000 * Min(relevant_count, total_sentences),
                             total_sentences))

calculate_context_relevancy(docs, reply) ==
    LET stripped == Strip(reply)
        total_sentences == TotalSentences(docs)
        relevant_count ==
            IF Upper(stripped) = <<"NONE">> THEN 0 ELSE CountNumbers(stripped)
    IN  IF total_sentences = 0 THEN Returned(0)
        ELSE Returned(round3(1000 * Min(relevant_count, total_sentences),
                             total_sentences))

\* re.search(label + r'\s*([\d.]+)', answer): <<>> when nothing matches, else
\* <<group 1>> of the leftmost match
RECURSIVE ScoreSearch(_, _, _)
ScoreSearch(s, label, i) ==
    IF i > Len(s) THEN <<>>
    ELSE LET j == RunEnd(s, i + 1, {" "})
             k == RunEnd(s, j, NumChars)
         IN  IF s[i] = label /\ k > j THEN <<SubSeq(s, j, k - 1)>>
             ELSE ScoreSearch(s, label, i + 1)

\* whether float(t) accepts a string t of digits and points
FloatParses(t) ==
    /\ Cardinality({i \in 1..Len(t) : t[i] = "."}) <= 1
    /\ \E i \in 1..Len(t) : t[i] \in Digits

\* the digits of t read as one integer, the point skipped
RECURSIVE DigitsValue(_)
DigitsValue(t) ==
    IF t = <<>> THEN 0
    ELSE LET last == t[Len(t)]
             init == SubSeq(t, 1, Len(t) - 1)
         IN  IF last = "." THEN DigitsValue(init)
             ELSE 10 * DigitsValue(init) + DigitValue(last)

RECURSIVE Pow10(_)
Pow10(n) == IF n = 0 THEN 1 ELSE 10 * Pow10(n - 1)

\* the number of digits after the point
Decimals(t) ==
    LET dots == {i \in 1..Len(t) : t[i] = "."}
    IN  IF dots = {} THEN 0 ELSE Len(t) - (CHOOSE i \in dots : TRUE)

\* round(float(t), 3), in thousandths
RoundedFloat(t) == round3(1000 * DigitsValue(t), Pow10(Decimals(t)))

\* score = float(score_match.group(1)) if score_match else default; round(score, 3)
ParseScore(reply, label, default) ==
    LET score_match == ScoreSearch(reply, label, 1)
    IN  IF score_match = <<>> THEN Returned(default)
        ELSE IF FloatParses(score_match[1]) THEN Returned(RoundedFloat(score_match[1]))
        ELSE Raised("ValueError")

CompletenessLabel == "COMPLETENESS_SCORE:"
FaithfulnessLabel == "FAITHFULNESS_SCORE:"

calculate_answer_completeness(reply) ==
    LET r == ParseScore(reply, CompletenessLabel, 500)
    IN  IF r.raised # "none" THEN r
        ELSE Returned([score |-> r.value, breakdown |-> reply])

\* calculate_faithfulness with calculate_answer_completeness' default
calculate_faithfulness_default_half(reply) == ParseScore(reply, FaithfulnessLabel, 500)

calculate_faithfulness(reply) == ParseScore(reply, FaithfulnessLabel, 800)

\* is_relevant as a plain substring match
is_relevant_naive(reply) == Contains(Upper(Strip(reply)), <<"RELEVANT">>)

\* "RELEVANT" in answer and "NOT_RELEVANT" not in answer, answer stripped and uppercased
is_relevant(reply) ==
    LET a == Upper(Strip(reply))
    IN  Contains(a, <<"RELEVANT">>) /\ ~Contains(a, <<"NOT_", "RELEVANT">>)

\* precision's constant k (evaluate_kb_quality_with_metrics passes k=3)
K == 3

\* TopK without the slice: every retrieved item is judged
TopKUnbounded(docs, k) == docs

\* top_k_docs = retrieved_docs[:k]
TopK(docs, k) == SubSeq(docs, 1, Min(k, Len(docs)))

\* one pass of the loop: the verdict appended for item i
Verdict(docs, i, reply) ==
    [doc_num |-> i, score |-> docs[i].score, relevant |-> is_relevant(reply)]

\* PrecisionResult dividing by the number of items judged
PrecisionResultOverJudged(results, k) ==
    LET relevant_count == Cardinality({i \in 1..Len(results) : results[i].relevant})
        judged == IF results = <<>> THEN k ELSE Len(results)
    IN  [precision_score |-> round3(1000 * relevant_count, judged),
         relevant_count |-> relevant_count,
         total_evaluated |-> k,
         details |-> results]

\* the dict returned after the loop
PrecisionResult(results, k) ==
    LET relevant_count == Cardinality({i \in 1..Len(results) : results[i].relevant})
    IN  [precision_score |-> round3(1000 * relevant_count, k),
         relevant_count |-> relevant_count,
         total_evaluated |-> k,
         details |-> results]

----------------------------------------------------------------------------
(* Aggregation: evaluate_kb_quality_with_metrics' record, the overall      *)
(* score, the batch result and the dashboard entry.                        *)

\* the metrics dict of evaluate_kb_quality_with_metrics
Metrics(relevancy, completeness, faith, precision) ==
    [context_relevancy |-> relevancy,
     answer_completeness |-> completeness.score,
     completeness_breakdown |-> completeness.breakdown,
     faithfulness |-> faith,
     precision_at_3 |-> precision.precision_score,
     precision_details |-> precision.details]

\* OverallScore with the weights of relevancy and completeness exchanged
OverallScoreSwappedWeights(m) ==
    round3(350 * m.context_relevancy + 250 * m.answer_completeness
             + 200 * m.faithfulness + 200 * m.precision_at_3, 1000)

\* round(0.25*a + 0.35*b + 0.20*c + 0.20*d, 3): the weights in thousandths, the
\* sum in millionths
OverallScore(m) ==
    round3(250 * m.context_relevancy + 350 * m.answer_completeness
             + 200 * m.faithfulness + 200 * m.precision_at_3, 1000)

\* the dashboard's own copy of the same expression
DashOverallScore(m) ==
    round3(250 * m.context_relevancy + 350 * m.answer_completeness
             + 200 * m.faithfulness + 200 * m.precision_at_3, 1000)

\* the dict check_question_with_metrics returns (its timestamp left out)
QuestionResult(question, snippets, evaluation, m) ==
    [question |-> question,
     retrieved_snippets |-> snippets,
     evaluation |-> evaluation,
     metrics |-> m,
     overall_score |-> OverallScore(m)]

\* the dashboard's entry: metrics['overall_score'] is added to the metrics dict
ChatEntry(question, generated, sources, m) ==
    [question |-> question,
     answer |-> generated,
     sources |-> sources,
     metrics |-> [context_relevancy |-> m.context_relevancy,
                  answer_completeness |-> m.answer_completeness,
                  completeness_breakdown |-> m.completeness_breakdown,
                  faithfulness |-> m.faithfulness,
                  precision_at_3 |-> m.precision_at_3,
                  precision_details |-> m.precision_details,
                  overall_score |-> DashOverallScore(m)]]

----------------------------------------------------------------------------
(* generate_summary_report.                                                *)

\* Sum leaving the first value out
RECURSIVE SumFromSecond(_)
SumFromSecond(s) == IF Len(s) <= 1 THEN 0 ELSE s[2] + SumFromSecond(Tail(s))

RECURSIVE Sum(_)
Sum(s) == IF s = <<>> THEN 0 ELSE Head(s) + Sum(Tail(s))

\* InsertByScore placing an element before the elements of equal key
RECURSIVE InsertByScoreBeforeEquals(_, _)
InsertByScoreBeforeEquals(sorted, r) ==
    IF sorted = <<>> THEN <<r>>
    ELSE IF r.overall_score <= Head(sorted).overall_score THEN <<r>> \o sorted
    ELSE <<Head(sorted)>> \o InsertByScoreBeforeEquals(Tail(sorted), r)

\* sorted(all_results, key=overall_score): a stable ascending sort; an element
\* goes after every element already placed whose key is not larger
RECURSIVE InsertByScore(_, _)
InsertByScore(sorted, r) ==
    IF sorted = <<>> THEN <<r>>
    ELSE IF r.overall_score < Head(sorted).overall_score THEN <<r>> \o sorted
    ELSE <<Head(sorted)>> \o InsertByScore(Tail(sorted), r)

RECURSIVE SortedByScore(_)
SortedByScore(s) ==
    IF s = <<>> THEN <<>>
    ELSE InsertByScore(SortedByScore(SubSeq(s, 1, Len(s) - 1)), s[Len(s)])

\* the number of worst questions listed: sorted_results[:3]
WorstCount == 3

generate_summary_report(results) ==
    LET total_questions == Len(results)
        Avg(vals) == round3(Sum(vals), total_questions)
        sorted_results == SortedByScore(results)
    IN  IF total_questions = 0 THEN Raised("ZeroDivisionError")
        ELSE Returned(
          [total_questions |-> total_questions,
           avg_metrics |->
             [context_relevancy |->
                  Avg([i \in 1..total_questions |-> results[i].metrics.context_relevancy]),
              answer_completeness |->
                  Avg([i \in 1..total_questions |-> results[i].metrics.answer_completeness]),
              faithfulness |->
                  Avg([i \in 1..total_questions |-> results[i].metrics.faithfulness]),
              precision_at_3 |->
                  Avg([i \in 1..total_questions |-> results[i].metrics.precision_at_3]),
              overall_score |->
                  Avg([i \in 1..total_questions |-> results[i].overall_score])],
           worst_questions |->
             [i \in 1..Min(WorstCount, total_questions) |->
                  [question |-> sorted_results[i].question,
                   score |-> sorted_results[i].overall_score]]])

----------------------------------------------------------------------------
(* The judge's replies.  A reply is any text: every sequence of tokens up  *)
(* to a bound when a scorer is called on its own, a few chosen replies     *)
(* when a whole program runs.                                              *)

RelevancyReplies == SeqsUpTo({"NONE", "none", " ", "8", ","}, MaxRelevancyReply)

\* "x" is any character that is neither whitespace, a digit nor a point
ScoreReplies(label) == SeqsUpTo({label, " ", "0", "8", ".", "x"}, MaxScoreReply)

PrecisionReplies ==
    SeqsUpTo({"RELEVANT", "relevant", "NOT_", " ", "x"}, MaxPrecisionReply)

ProgramDocLists == {<<>>, <<[text |-> <<"s", ".", " ">>, score |-> 900]>>}

ProgramRelevancyReplies == {<<"NONE">>, <<"8">>}

\* a well-formed score, no label, an out-of-range score, a score that ends a sentence
ProgramCompletenessReplies ==
    { <<CompletenessLabel, " ", "0", ".", "8">>, <<"x">>, <<CompletenessLabel, " ", "8">>,
      <<CompletenessLabel, " ", "0", ".", "8", ".">> }

\* no label, an out-of-range score
ProgramFaithfulnessReplies == {<<"x">>, <<FaithfulnessLabel, " ", "8">>}

\* the questions the dashboard's user asks
DashQuestions == {1, 2}

ProgramPrecisionReplies == {<<"RELEVANT">>, <<"NOT_", "RELEVANT">>}

\* the questions: check_kb_quality's test_questions, by number
test_questions == <<1, 2, 3>>

\* the text evaluate_kb_quality (batch) or generate_answer (dashboard) returns
GeneratedText == "generated"

----------------------------------------------------------------------------
(* A scorer called on its own: the inputs are drawn in Init, one call is   *)
(* made, and the state keeps the reply and what the call returned.         *)

ClearLocals ==
    /\ answer = <<>>
    /\ context_relevancy = <<>>
    /\ completeness_result = <<>>
    /\ faithfulness = <<>>
    /\ relevance_results = <<>>
    /\ precision_result = <<>>

NoProgram ==
    /\ fault = "none"
    /\ qi = 0
    /\ all_results = <<>>
    /\ summary = <<>>
    /\ chat_history = <<>>

CallContextRelevancy ==
    /\ caller = "call" /\ pc = "call"
    /\ fn' = "calculate_context_relevancy"
    /\ \E reply \in RelevancyReplies :
         LET r == calculate_context_relevancy(retrieved_docs, reply)
         IN  /\ answer' = reply
             /\ IF r.raised = "none"
                THEN context_relevancy' = <<r.value>> /\ pc' = "returned"
                     /\ fault' = fault
                ELSE context_relevancy' = <<>> /\ pc' = "raised"
                     /\ fault' = r.raised
    /\ UNCHANGED <<caller, retrieved_docs, completeness_result, faithfulness,
                   relevance_results, precision_result, qi, all_results,
                   summary, chat_history>>

CallAnswerCompleteness ==
    /\ caller = "call" /\ pc = "call"
    /\ fn' = "calculate_answer_completeness"
    /\ \E reply \in ScoreReplies(CompletenessLabel) :
         LET r == calculate_answer_completeness(reply)
         IN  /\ answer' = reply
             /\ IF r.raised = "none"
                THEN completeness_result' = <<r.value>> /\ pc' = "returned"
                     /\ fault' = fault
                ELSE completeness_result' = <<>> /\ pc' = "raised"
                     /\ fault' = r.raised
    /\ UNCHANGED <<caller, retrieved_docs, context_relevancy, faithfulness,
                   relevance_results, precision_result, qi, all_results,
                   summary, chat_history>>

CallFaithfulness ==
    /\ caller = "call" /\ pc = "call"
    /\ fn' = "calculate_faithfulness"
    /\ \E reply \in ScoreReplies(FaithfulnessLabel) :
         LET r == calculate_faithfulness(reply)
         IN  /\ answer' = reply
             /\ IF r.raised = "none"
                THEN faithfulness' = <<r.value>> /\ pc' = "returned"
                     /\ fault' = fault
                ELSE faithfulness' = <<>> /\ pc' = "raised"
                     /\ fault' = r.raised
    /\ UNCHANGED <<caller, retrieved_docs, context_relevancy, completeness_result,
                   relevance_results, precision_result, qi, all_results,
                   summary, chat_history>>

\* one pass of calculate_precision_at_k's loop: one judge invocation, one verdict
JudgeItem(Replies) ==
    /\ Len(relevance_results) < Len(TopK(retrieved_docs, K))
    /\ \E reply \in Replies :
         /\ answer' = reply
         /\ relevance_results' =
                Append(relevance_results,
                       Verdict(TopK(retrieved_docs, K), Len(relevance_results) + 1, reply))

CallPrecisionJudge ==
    /\ caller = "call" /\ pc \in {"call", "precision_loop"}
    /\ fn' = "calculate_precision_at_k"
    /\ JudgeItem(PrecisionReplies)
    /\ pc' = "precision_loop"
    /\ UNCHANGED <<caller, retrieved_docs, context_relevancy, completeness_result,
                   faithfulness, precision_result, fault, qi, all_results,
                   summary, chat_history>>

CallPrecisionReturn ==
    /\ caller = "call" /\ pc \in {"call", "precision_loop"}
    /\ fn' = "calculate_precision_at_k"
    /\ Len(relevance_results) = Len(TopK(retrieved_docs, K))
    /\ precision_result' = <<PrecisionResult(relevance_results, K)>>
    /\ pc' = "returned"
    /\ UNCHANGED <<caller, retrieved_docs, answer, context_relevancy,
                   completeness_result, faithfulness, relevance_results, fault, qi,
                   all_results, summary, chat_history>>

\* the function can be called again on the same sequence once it has returned
CallGenerateSummaryReport ==
    /\ caller = "call" /\ pc \in {"call", "returned"}
    /\ fn' = "generate_summary_report"
    /\ LET r == generate_summary_report(all_results)
       IN  IF r.raised = "none"
           THEN summary' = <<r.value>> /\ pc' = "returned" /\ fault' = fault
           ELSE summary' = <<>> /\ pc' = "raised" /\ fault' = r.raised
    /\ UNCHANGED <<caller, retrieved_docs, answer, context_relevancy,
                   completeness_result, faithfulness, relevance_results,
                   precision_result, qi, all_results, chat_history>>

\* calculate_context_relevancy and calculate_precision_at_k on any retrieved items
InitRetrievalScorers ==
    /\ caller = "call" /\ pc = "call" /\ fn = "none"
    /\ retrieved_docs \in DocLists
    /\ ClearLocals /\ NoProgram

NextRetrievalScorers ==
    \/ CallContextRelevancy
    \/ CallPrecisionJudge
    \/ CallPrecisionReturn

SpecRetrievalScorers == InitRetrievalScorers /\ [][NextRetrievalScorers]_vars

\* calculate_answer_completeness and calculate_faithfulness on any judge reply
InitScoreParsers ==
    /\ caller = "call" /\ pc = "call" /\ fn = "none"
    /\ retrieved_docs \in ProgramDocLists
    /\ ClearLocals /\ NoProgram

NextScoreParsers ==
    \/ CallAnswerCompleteness
    \/ CallFaithfulness

SpecScoreParsers == InitScoreParsers /\ [][NextScoreParsers]_vars

----------------------------------------------------------------------------
(* generate_summary_report on its own, on any sequence of evaluations that *)
(* check_question_with_metrics can return for three retrieved items.       *)

SampleDocs ==
    << [text |-> <<"s", ".", " ">>, score |-> 900],
       [text |-> <<".", " ">>, score |-> 700],
       [text |-> <<"s", ".", "s">>, score |-> 500] >>

SampleMetrics ==
    { Metrics(calculate_context_relevancy(SampleDocs, rr).value,
              calculate_answer_completeness(<<CompletenessLabel, "0", ".", "8">>).value,
              calculate_faithfulness(fr).value,
              PrecisionResult([i \in 1..K |-> Verdict(SampleDocs, i, pr)], K)) :
        rr \in ProgramRelevancyReplies,
        fr \in {<<"x">>, <<FaithfulnessLabel, "0">>},
        pr \in ProgramPrecisionReplies }

\* the evaluations of questions 1..n, in that order, with the metrics ms[1..n]
SampleResults(ms) ==
    [i \in DOMAIN ms |-> QuestionResult(i, SampleDocs, GeneratedText, ms[i])]

InitSummary ==
    /\ caller = "call" /\ pc = "call" /\ fn = "none"
    /\ retrieved_docs = <<>>
    /\ ClearLocals
    /\ fault = "none" /\ qi = 0 /\ summary = <<>> /\ chat_history = <<>>
    /\ \E n \in 0..MaxResults :
         \E ms \in [1..n -> SampleMetrics] : all_results = SampleResults(ms)

NextSummary == CallGenerateSummaryReport

SpecSummary == InitSummary /\ [][NextSummary]_vars

----------------------------------------------------------------------------
(* The programs: check_kb_quality.py's batch run over test_questions, and  *)
(* the dashboard's session.  Each judge invocation is one step; a step     *)
(* whose call raises ends the evaluation the way the code does: nothing    *)
(* in either program catches an exception.                                 *)

ResetLocals ==
    /\ answer' = <<>>
    /\ context_relevancy' = <<>>
    /\ completeness_result' = <<>>
    /\ faithfulness' = <<>>
    /\ relevance_results' = <<>>
    /\ precision_result' = <<>>

\* an exception escapes the evaluation of the current question.  The batch
\* program has no handler: the process ends.  Streamlit reports the exception
\* and ends the script run: the session state is kept as it was.
Escape(e) ==
    /\ fault' = e
    /\ pc' = IF caller = "batch" THEN "crashed" ELSE "idle"
    /\ ResetLocals
    /\ retrieved_docs' = <<>>
    /\ UNCHANGED <<fn, caller, qi, all_results, summary, chat_history>>

\* retrieve_kb_snippets / retrieve_documents
Retrieve ==
    /\ caller = "batch" /\ pc = "retrieve"
    /\ \E docs \in ProgramDocLists : retrieved_docs' = docs
    /\ pc' = "generate"
    /\ UNCHANGED <<fn, caller, answer, context_relevancy, completeness_result,
                   faithfulness, relevance_results, precision_result, fault, qi,
                   all_results, summary, chat_history>>

\* the dashboard's form is submitted with a question: retrieve_documents
DashSubmit ==
    /\ caller = "dashboard" /\ pc = "idle"
    /\ Len(chat_history) < MaxHistory
    /\ \E q \in DashQuestions : qi' = q
    /\ \E docs \in ProgramDocLists : retrieved_docs' = docs
    /\ fault' = "none"
    /\ pc' = "generate"
    /\ UNCHANGED <<fn, caller, answer, context_relevancy, completeness_result,
                   faithfulness, relevance_results, precision_result,
                   all_results, summary, chat_history>>

\* the vector search raises (batch or dashboard)
RetrievalFails ==
    /\ \/ caller = "batch" /\ pc = "retrieve"
       \/ caller = "dashboard" /\ pc = "idle" /\ Len(chat_history) < MaxHistory
    /\ Escape("RetrievalError")

\* evaluate_kb_quality (batch) / generate_answer (dashboard): one model call
Generate ==
    /\ caller \in {"batch", "dashboard"} /\ pc = "generate"
    /\ pc' = "relevancy"
    /\ UNCHANGED <<fn, caller, retrieved_docs, answer, context_relevancy,
                   completeness_result, faithfulness, relevance_results,
                   precision_result, fault, qi, all_results, summary, chat_history>>

ContextRelevancyStep ==
    /\ caller \in {"batch", "dashboard"} /\ pc = "relevancy"
    /\ \E reply \in ProgramRelevancyReplies :
         LET r == calculate_context_relevancy(retrieved_docs, reply)
         IN  IF r.raised # "none" THEN Escape(r.raised)
             ELSE /\ answer' = reply
                  /\ context_relevancy' = <<r.value>>
                  /\ pc' = "completeness"
                  /\ UNCHANGED <<fn, caller, retrieved_docs, completeness_result,
                                 faithfulness, relevance_results, precision_result,
                                 fault, qi, all_results, summary, chat_history>>

AnswerCompletenessStep ==
    /\ caller \in {"batch", "dashboard"} /\ pc = "completeness"
    /\ \E reply \in ProgramCompletenessReplies :
         LET r == calculate_answer_completeness(reply)
         IN  IF r.raised # "none" THEN Escape(r.raised)
             ELSE /\ answer' = reply
                  /\ completeness_result' = <<r.value>>
                  /\ pc' = "faithfulness"
                  /\ UNCHANGED <<fn, caller, retrieved_docs, context_relevancy,
                                 faithfulness, relevance_results, precision_result,
                                 fault, qi, all_results, summary, chat_history>>

FaithfulnessStep ==
    /\ caller \in {"batch", "dashboard"} /\ pc = "faithfulness"
    /\ \E reply \in ProgramFaithfulnessReplies :
         LET r == calculate_faithfulness(reply)
         IN  IF r.raised # "none" THEN Escape(r.raised)
             ELSE /\ answer' = reply
                  /\ faithfulness' = <<r.value>>
                  /\ pc' = "precision"
                  /\ UNCHANGED <<fn, caller, retrieved_docs, context_relevancy,
                                 completeness_result, relevance_results,
                                 precision_result, fault, qi, all_results, summary,
                                 chat_history>>

PrecisionJudgeStep ==
    /\ caller \in {"batch", "dashboard"} /\ pc = "precision"
    /\ JudgeItem(ProgramPrecisionReplies)
    /\ UNCHANGED <<fn, caller, pc, retrieved_docs, context_relevancy,
                   completeness_result, faithfulness, precision_result, fault, qi,
                   all_results, summary, chat_history>>

\* a judge (or generation) call raises: ollama.chat fails
JudgeFails ==
    /\ caller \in {"batch", "dashboard"}
    /\ \/ pc \in {"generate", "relevancy", "completeness", "faithfulness"}
       \/ pc = "precision" /\ Len(relevance_results) < Len(TopK(retrieved_docs, K))
    /\ Escape("JudgeUnavailable")

\* MetricsNow with the default faithfulness in place of the scorer's value
MetricsNowDefaultFaithfulness ==
    Metrics(context_relevancy[1], completeness_result[1], 800,
            PrecisionResult(relevance_results, K))

\* the metrics dict once the precision loop is over
MetricsNow ==
    Metrics(context_relevancy[1], completeness_result[1], faithfulness[1],
            PrecisionResult(relevance_results, K))

\* batch: the scorers are done; check_question_with_metrics returns its dict,
\* the loop appends it and goes to the next question
BatchAppendResult ==
    /\ caller = "batch" /\ pc = "precision"
    /\ Len(relevance_results) = Len(TopK(retrieved_docs, K))
    /\ all_results' = Append(all_results,
           QuestionResult(test_questions[qi], retrieved_docs, GeneratedText, MetricsNow))
    /\ IF qi < Len(test_questions)
       THEN qi' = qi + 1 /\ pc' = "retrieve"
       ELSE qi' = qi /\ pc' = "summary"
    /\ ResetLocals
    /\ retrieved_docs' = <<>>
    /\ UNCHANGED <<fn, caller, fault, summary, chat_history>>

\* batch: generate_summary_report(all_results), then the two reports are written
BatchSummary ==
    /\ caller = "batch" /\ pc = "summary"
    /\ LET r == generate_summary_report(all_results)
       IN  IF r.raised # "none" THEN Escape(r.raised)
           ELSE /\ summary' = <<r.value>>
                /\ pc' = "done"
                /\ UNCHANGED <<fn, caller, retrieved_docs, answer, context_relevancy,
                               completeness_result, faithfulness, relevance_results,
                               precision_result, fault, qi, all_results, chat_history>>

\* dashboard: the scorers are done; the entry is appended and the script reruns
DashSave ==
    /\ caller = "dashboard" /\ pc = "precision"
    /\ Len(relevance_results) = Len(TopK(retrieved_docs, K))
    /\ chat_history' = Append(chat_history,
           ChatEntry(qi, GeneratedText, retrieved_docs, MetricsNow))
    /\ pc' = "idle"
    /\ ResetLocals
    /\ retrieved_docs' = <<>>
    /\ UNCHANGED <<fn, caller, fault, qi, all_results, summary>>

\* DashClear keeping the latest entry
DashClearKeepingLast ==
    /\ caller = "dashboard" /\ pc = "idle"
    /\ chat_history' = IF Len(chat_history) > 1
                       THEN <<chat_history[Len(chat_history)]>> ELSE <<>>
    /\ UNCHANGED <<fn, caller, pc, retrieved_docs, answer, context_relevancy,
                   completeness_result, faithfulness, relevance_results,
                   precision_result, fault, qi, all_results, summary>>

\* dashboard: the sidebar's Questions Asked figure as the script run renders it
\* from the session state: <<>> when the figure is not shown
QuestionsAsked ==
    IF chat_history # <<>> THEN <<Len(chat_history)>> ELSE <<>>

\* dashboard: the Clear History button
DashClear ==
    /\ caller = "dashboard" /\ pc = "idle"
    /\ chat_history' = <<>>
    /\ UNCHANGED <<fn, caller, pc, retrieved_docs, answer, context_relevancy,
                   completeness_result, faithfulness, relevance_results,
                   precision_result, fault, qi, all_results, summary>>

Init ==
    /\ \/ caller = "batch" /\ pc = "retrieve" /\ qi = 1
       \/ caller = "dashboard" /\ pc = "idle" /\ qi = 0
    /\ fn = "none"
    /\ retrieved_docs = <<>>
    /\ ClearLocals
    /\ fault = "none"
    /\ all_results = <<>>
    /\ summary = <<>>
    /\ chat_history = <<>>

Next ==
    \/ Retrieve
    \/ DashSubmit
    \/ RetrievalFails
    \/ Generate
    \/ ContextRelevancyStep
    \/ AnswerCompletenessStep
    \/ FaithfulnessStep
    \/ PrecisionJudgeStep
    \/ JudgeFails
    \/ BatchAppendResult
    \/ BatchSummary
    \/ DashSave
    \/ DashClear

Spec == Init /\ [][Next]_vars

----------------------------------------------------------------------------
(* The claims.                                                             *)

Abs(x) == IF x < 0 THEN -x ELSE x

\* o (in thousandths) is 0.25a + 0.35b + 0.20c + 0.20d rounded to 3 decimals: a
\* thousandth nearest to the weighted sum (either one, when two are equally near)
IsWeightedScore(o, m) ==
    LET sum == 250 * m.context_relevancy + 350 * m.answer_completeness
                 + 200 * m.faithfulness + 200 * m.precision_at_3
    IN  2 * Abs(1000 * o - sum) <= 1000

\* C1: every result of the batch run and every entry of the dashboard's history
\* carries overall_score = 0.25a + 0.35b + 0.20c + 0.20d rounded to 3 decimals,
\* a, b, c, d being the four metric scores stored beside it.
C1_OverallScoreIsWeightedSum ==
    /\ \A i \in 1..Len(all_results) :
         IsWeightedScore(all_results[i].overall_score, all_results[i].metrics)
    /\ \A i \in 1..Len(chat_history) :
         IsWeightedScore(chat_history[i].metrics.overall_score, chat_history[i].metrics)

\* a batch result whose weighted sum, 0.25*1.0 + 0.35*0.8 + 0.20*8.0 + 0.20*0.333 =
\* 2.1966, is rounded up to 2.197
C1_Witness ==
    \E i \in 1..Len(all_results) :
        /\ all_results[i].metrics.context_relevancy = 1000
        /\ all_results[i].metrics.answer_completeness = 800
        /\ all_results[i].metrics.faithfulness = 8000
        /\ all_results[i].metrics.precision_at_3 = 333
        /\ all_results[i].overall_score = 2197

InUnitRange(x) == 0 <= x /\ x <= 1000

\* C2: the scores calculate_context_relevancy, calculate_faithfulness and
\* calculate_precision_at_k (k = 3) return lie in [0.0, 1.0], whatever the judge
\* replies: both while a question is evaluated and in every stored record.
C2_ScoresInUnitRange ==
    /\ context_relevancy # <<>> => InUnitRange(context_relevancy[1])
    /\ faithfulness # <<>> => InUnitRange(faithfulness[1])
    /\ \A i \in 1..Len(all_results) :
         /\ InUnitRange(all_results[i].metrics.context_relevancy)
         /\ InUnitRange(all_results[i].metrics.faithfulness)
         /\ InUnitRange(all_results[i].metrics.precision_at_3)
    /\ \A i \in 1..Len(chat_history) :
         /\ InUnitRange(chat_history[i].metrics.context_relevancy)
         /\ InUnitRange(chat_history[i].metrics.faithfulness)
         /\ InUnitRange(chat_history[i].metrics.precision_at_3)

\* the positions of the label in a reply
Occurrences(s, label) == {i \in 1..Len(s) : s[i] = label}

\* the text that follows the label at position i: after any whitespace, the
\* digits and points up to the first other character
TextAfter(s, i) ==
    LET j == RunEnd(s, i + 1, {" "})
    IN  SubSeq(s, j, RunEnd(s, j, NumChars) - 1)

\* t is a float written with digits and at most one point: 8, 0.8, .8, 8.
IsFloatText(t) ==
    /\ t # <<>>
    /\ \/ \A i \in 1..Len(t) : t[i] \in Digits
       \/ \E d \in 1..Len(t) :
            /\ t[d] = "."
            /\ Len(t) >= 2
            /\ \A i \in 1..Len(t) : i # d => t[i] \in Digits

\* v (in thousandths) is the float written t, rounded to 3 decimals
IsRoundedFloat(v, t) ==
    2 * Abs(v * Pow10(Decimals(t)) - 1000 * DigitsValue(t)) <= Pow10(Decimals(t))

\* the label occurs, and no occurrence is followed by a parseable float
UnparseableAfterLabel(s, label) ==
    /\ Occurrences(s, label) # {}
    /\ \A i \in Occurrences(s, label) : ~IsFloatText(TextAfter(s, i))

\* C3: when the reply holds the score label followed by text that is not a
\* parseable float (0.8., 1.2.3, a lone point), calculate_answer_completeness
\* returns score 0.5 and calculate_faithfulness returns 0.8; neither raises.
C3_UnparseableScoreGivesDefault ==
    /\ (fn = "calculate_answer_completeness"
          /\ UnparseableAfterLabel(answer, CompletenessLabel))
       => /\ pc = "returned" /\ fault = "none"
          /\ completeness_result = <<[score |-> 500, breakdown |-> answer]>>
    /\ (fn = "calculate_faithfulness"
          /\ UnparseableAfterLabel(answer, FaithfulnessLabel))
       => /\ pc = "returned" /\ fault = "none"
          /\ faithfulness = <<800>>

\* the label occurs, and its first occurrence is followed by a parseable float
WellFormedAfterLabel(s, label) ==
    /\ Occurrences(s, label) # {}
    /\ IsFloatText(TextAfter(s, CHOOSE i \in Occurrences(s, label) :
                                  \A j \in Occurrences(s, label) : i <= j))

FirstScoreText(s, label) ==
    TextAfter(s, CHOOSE i \in Occurrences(s, label) :
                    \A j \in Occurrences(s, label) : i <= j)

\* C4: when the reply does not hold the score label, calculate_answer_completeness
\* returns score 0.5 with the whole reply as breakdown and calculate_faithfulness
\* returns 0.8; when the label is there, followed by a well-formed float, that
\* float rounded to 3 decimals is returned; no fault is raised in either case.
C4_DefaultWithoutLabelElseTheFloat ==
    /\ fn = "calculate_answer_completeness" =>
         /\ Occurrences(answer, CompletenessLabel) = {} =>
              /\ pc = "returned" /\ fault = "none"
              /\ completeness_result = <<[score |-> 500, breakdown |-> answer]>>
         /\ WellFormedAfterLabel(answer, CompletenessLabel) =>
              /\ pc = "returned" /\ fault = "none"
              /\ completeness_result # <<>>
              /\ IsRoundedFloat(completeness_result[1].score,
                                FirstScoreText(answer, CompletenessLabel))
              /\ completeness_result[1].breakdown = answer
    /\ fn = "calculate_faithfulness" =>
         /\ Occurrences(answer, FaithfulnessLabel) = {} =>
              /\ pc = "returned" /\ fault = "none"
              /\ faithfulness = <<800>>
         /\ WellFormedAfterLabel(answer, FaithfulnessLabel) =>
              /\ pc = "returned" /\ fault = "none"
              /\ faithfulness # <<>>
              /\ IsRoundedFloat(faithfulness[1], FirstScoreText(answer, FaithfulnessLabel))

\* the judge writes COMPLETENESS_SCORE:.8888 and 0.889 is returned
C4_Witness ==
    /\ fn = "calculate_answer_completeness"
    /\ answer = <<CompletenessLabel, ".", "8", "8", "8", "8">>
    /\ completeness_result = <<[score |-> 889, breakdown |-> answer]>>

\* C5: a judge failure during one question of the batch run aborts that
\* question only: the run does not end there, and once the run is done the
\* summary is the report over the results recorded.
C5_JudgeFailureSkipsOneQuestion ==
    /\ (caller = "batch" /\ fault = "JudgeUnavailable") => pc # "crashed"
    /\ (caller = "batch" /\ pc = "done") =>
           summary = <<generate_summary_report(all_results).value>>

\* C6: generate_summary_report on an empty sequence fails with EmptyBatch: it
\* returns no summary and no other fault escapes.
C6_EmptySummaryRaisesEmptyBatch ==
    (fn = "generate_summary_report" /\ all_results = <<>>) =>
        /\ pc = "raised"
        /\ fault = "EmptyBatch"
        /\ summary = <<>>

\* the reply holds the word RELEVANT, in either case
HasRelevant(s) == \E i \in 1..Len(s) : s[i] \in {"RELEVANT", "relevant"}

\* the reply holds NOT_RELEVANT, in either case
HasNotRelevant(s) ==
    \E i \in 1..(Len(s) - 1) : s[i] = "NOT_" /\ s[i + 1] \in {"RELEVANT", "relevant"}

\* C7: the verdict calculate_precision_at_k records for the item just judged is
\* relevant if and only if the reply holds RELEVANT and does not hold
\* NOT_RELEVANT: NOT_RELEVANT alone is not relevant, RELEVANT alone is.
C7_RelevantIffRelevantAndNotNotRelevant ==
    (fn = "calculate_precision_at_k" /\ relevance_results # <<>>) =>
        /\ relevance_results[Len(relevance_results)].relevant
             <=> (HasRelevant(answer) /\ ~HasNotRelevant(answer))
        /\ answer = <<"NOT_", "RELEVANT">>
             => ~relevance_results[Len(relevance_results)].relevant
        /\ answer = <<"RELEVANT">>
             => relevance_results[Len(relevance_results)].relevant

\* the judge answers not_relevant in lower case and the item is not counted
C7_Witness ==
    /\ fn = "calculate_precision_at_k"
    /\ relevance_results # <<>>
    /\ answer = <<"NOT_", "relevant">>
    /\ ~relevance_results[Len(relevance_results)].relevant

\* C8: calculate_precision_at_k returns relevant_count / k rounded to 3
\* decimals with k the constant 3, whatever the number n of items judged: at
\* most n/k when n < k (0.333 for one item), and 1.0 for k relevant items.
C8_PrecisionIsRelevantCountOverK ==
    (fn = "calculate_precision_at_k" /\ pc = "returned") =>
        LET p == precision_result[1]
            n == Len(retrieved_docs)
            rc == Cardinality({i \in 1..Len(relevance_results) :
                                  relevance_results[i].relevant})
        IN  /\ p.relevant_count = rc
            /\ p.total_evaluated = K
            /\ 2 * Abs(K * p.precision_score - 1000 * rc) <= K
            /\ n < K => 2 * (K * p.precision_score - 1000 * n) <= K
            /\ n = 1 => p.precision_score <= 333
            /\ (n >= K /\ rc = K) => p.precision_score = 1000

\* one item retrieved, judged relevant: the score is 0.333
C8_Witness ==
    /\ fn = "calculate_precision_at_k" /\ pc = "returned"
    /\ Len(retrieved_docs) = 1
    /\ precision_result # <<>>
    /\ precision_result[1].relevant_count = 1
    /\ precision_result[1].precision_score = 333

\* no retrieved item holds a character of a sentence
NoSentences(docs) ==
    \A i \in 1..Len(docs) :
        \A j \in 1..Len(docs[i].text) : docs[i].text[j] \in {".", " "}

\* the reply is the word NONE, in either case, with whitespace around it at most
IsNoneReply(s) ==
    \E i \in 1..Len(s) :
        /\ s[i] \in {"NONE", "none"}
        /\ \A j \in 1..Len(s) : j # i => s[j] = " "

\* C9: calculate_context_relevancy returns 0.0 and raises nothing when the
\* retrieved items hold no sentence (an empty list included), whatever the
\* reply; and it returns 0.0 when the reply is NONE, whatever the items.
C9_ZeroRelevancyWithoutSentencesOrOnNone ==
    fn = "calculate_context_relevancy" =>
        /\ NoSentences(retrieved_docs) =>
             /\ pc = "returned" /\ fault = "none"
             /\ context_relevancy = <<0>>
        /\ IsNoneReply(answer) =>
             /\ pc = "returned" /\ fault = "none"
             /\ context_relevancy = <<0>>

\* items without a sentence, and a reply that lists a sentence number
C9_Witness ==
    /\ fn = "calculate_context_relevancy"
    /\ retrieved_docs # <<>>
    /\ NoSentences(retrieved_docs)
    /\ answer = <<"8">>
    /\ pc = "returned"
    /\ context_relevancy = <<0>>

\* the evaluation at position p comes before the one at position q in the
\* ranking: a lower overall_score, or the same one and an earlier position
RanksBefore(p, q) ==
    \/ all_results[p].overall_score < all_results[q].overall_score
    \/ /\ all_results[p].overall_score = all_results[q].overall_score
       /\ p < q

\* C10: for N >= 1 evaluations (the question of each being its position),
\* worst_questions has min(3, N) entries, each the question and overall_score
\* of an evaluation; they are in ascending order of overall_score, equal scores
\* in input order, and every evaluation left out ranks after all of them.
C10_WorstQuestionsAreTheLowestInStableOrder ==
    (fn = "generate_summary_report" /\ all_results # <<>>) =>
        /\ pc = "returned"
        /\ LET w == summary[1].worst_questions
               N == Len(all_results)
               listed == {w[j].question : j \in 1..Len(w)}
           IN  /\ Len(w) = Min(3, N)
               /\ \A j \in 1..Len(w) :
                    /\ w[j].question \in 1..N
                    /\ all_results[w[j].question].question = w[j].question
                    /\ w[j].score = all_results[w[j].question].overall_score
               /\ \A j, k \in 1..Len(w) :
                    j < k => RanksBefore(w[j].question, w[k].question)
               /\ \A j \in 1..Len(w) :
                    \A p \in (1..N) \ listed : RanksBefore(w[j].question, p)

\* four evaluations, the two worst with the same overall_score, and a third
\* one with that score left out of the list for being later in the input
C10_Witness ==
    /\ fn = "generate_summary_report" /\ pc = "returned"
    /\ Len(all_results) = 4
    /\ summary # <<>>
    /\ LET w == summary[1].worst_questions
       IN  /\ Len(w) = 3
           /\ w[1].score = w[2].score
           /\ w[1].question < w[2].question
           /\ w[3].score > w[2].score
           /\ \E p \in 1..4 : /\ p \notin {w[j].question : j \in 1..3}
                              /\ all_results[p].overall_score = w[3].score

\* the steps of evaluate_kb_quality_with_metrics
ScorerSteps == {"relevancy", "completeness", "faithfulness", "precision"}

\* the record m holds the four scores, each the value its scorer returned in
\* the call now ending (the locals are empty when the call starts)
ScoredInThisCall(m) ==
    /\ context_relevancy # <<>> /\ m.context_relevancy = context_relevancy[1]
    /\ completeness_result # <<>>
    /\ m.answer_completeness = completeness_result[1].score
    /\ m.completeness_breakdown = completeness_result[1].breakdown
    /\ faithfulness # <<>> /\ m.faithfulness = faithfulness[1]
    /\ Len(relevance_results) = Min(K, Len(retrieved_docs))
    /\ m.precision_details = relevance_results
    /\ 2 * Abs(K * m.precision_at_3
                 - 1000 * Cardinality({i \in 1..Len(relevance_results) :
                                          relevance_results[i].relevant})) <= K

\* C11: evaluate_kb_quality_with_metrics is all-or-nothing.  A step in which a
\* scorer's call fails records nothing and discards the scores already
\* computed; a step in which the caller records an evaluation records all four
\* scores, each returned by its scorer in that same call.
C11_MetricsAllOrNothing ==
    [][ /\ (pc \in ScorerSteps /\ fault' # "none") =>
             /\ all_results' = all_results
             /\ chat_history' = chat_history
             /\ context_relevancy' = <<>> /\ completeness_result' = <<>>
             /\ faithfulness' = <<>> /\ relevance_results' = <<>>
             /\ precision_result' = <<>>
        /\ Len(all_results') > Len(all_results) =>
             ScoredInThisCall(all_results'[Len(all_results')].metrics)
        /\ Len(chat_history') > Len(chat_history) =>
             ScoredInThisCall(chat_history'[Len(chat_history')].metrics)
      ]_vars

\* the batch run recorded question 1 with the faithfulness its scorer returned
\* (8.0), then a judge call failed during question 2: nothing more is recorded
C11_Witness ==
    /\ caller = "batch" /\ pc = "crashed" /\ fault = "JudgeUnavailable"
    /\ qi = 2
    /\ Len(all_results) = 1
    /\ all_results[1].metrics.faithfulness = 8000
    /\ context_relevancy = <<>> /\ faithfulness = <<>>

\* the sum of field f(r) over the evaluations r of all_results
Total(f(_)) ==
    LET upto[i \in 0..Len(all_results)] ==
            IF i = 0 THEN 0 ELSE upto[i - 1] + f(all_results[i])
    IN  upto[Len(all_results)]

\* a (in thousandths) is total / N rounded to 3 decimals: a thousandth nearest
\* to the mean (either one, when two are equally near)
IsRoundedMean(a, total) ==
    2 * Abs(Len(all_results) * a - total) <= Len(all_results)

FieldContextRelevancy(r) == r.metrics.context_relevancy
FieldAnswerCompleteness(r) == r.metrics.answer_completeness
FieldFaithfulness(r) == r.metrics.faithfulness
FieldPrecisionAt3(r) == r.metrics.precision_at_3
FieldOverallScore(r) == r.overall_score

\* C12: for N >= 1 evaluations generate_summary_report returns total_questions
\* = N and, for each of the four metrics and overall_score, the mean of that
\* field over the N evaluations rounded to 3 decimals; and a further call on the
\* same sequence returns the same summary.
C12_SummaryAveragesAreRoundedMeans ==
    /\ [](  (fn = "generate_summary_report" /\ all_results # <<>>) =>
              /\ pc = "returned" /\ fault = "none"
              /\ summary # <<>>
              /\ summary[1].total_questions = Len(all_results)
              /\ LET avg == summary[1].avg_metrics
                 IN  /\ IsRoundedMean(avg.context_relevancy, Total(FieldContextRelevancy))
                     /\ IsRoundedMean(avg.answer_completeness,
                                      Total(FieldAnswerCompleteness))
                     /\ IsRoundedMean(avg.faithfulness, Total(FieldFaithfulness))
                     /\ IsRoundedMean(avg.precision_at_3, Total(FieldPrecisionAt3))
                     /\ IsRoundedMean(avg.overall_score, Total(FieldOverallScore)) )
    /\ [][ (fn = "generate_summary_report" /\ pc = "returned"
              /\ all_results' = all_results) => summary' = summary ]_vars

\* three evaluations with relevancy 0.333, 0, 0 and precision 1, 1, 0: the
\* averages are 0.111 and 0.667
C12_Witness ==
    /\ fn = "generate_summary_report" /\ pc = "returned"
    /\ Len(all_results) = 3
    /\ summary # <<>>
    /\ summary[1].total_questions = 3
    /\ all_results[1].metrics.context_relevancy = 333
    /\ summary[1].avg_metrics.context_relevancy = 111
    /\ all_results[3].metrics.precision_at_3 = 0
    /\ summary[1].avg_metrics.precision_at_3 = 667

\* C13: calculate_precision_at_k judges the first min(k, n) of the n retrieved
\* items and no other, in their given order, one judge invocation and one
\* verdict per item; the i-th verdict carries position i and the similarity
\* score of the i-th retrieved item, and the details returned are those verdicts.
C13_PrecisionJudgesFirstKInOrder ==
    /\ [](  fn = "calculate_precision_at_k" =>
              /\ Len(relevance_results) <= Min(K, Len(retrieved_docs))
              /\ \A i \in 1..Len(relevance_results) :
                    /\ relevance_results[i].doc_num = i
                    /\ relevance_results[i].score = retrieved_docs[i].score
              /\ pc = "returned" =>
                    /\ precision_result # <<>>
                    /\ Len(precision_result[1].details) = Min(K, Len(retrieved_docs))
                    /\ precision_result[1].details = relevance_results )
    /\ [][ relevance_results' # relevance_results =>
             /\ fn' = "calculate_precision_at_k"
             /\ Len(relevance_results') = Len(relevance_results) + 1
             /\ SubSeq(relevance_results', 1, Len(relevance_results)) = relevance_results
             /\ retrieved_docs' = retrieved_docs
             /\ pc' # "returned"
       ]_<<relevance_results, retrieved_docs, pc, fn>>

\* four items retrieved, the first with a lower similarity score than the
\* second: three verdicts, in the given order, and the fourth item is not judged
C13_Witness ==
    /\ fn = "calculate_precision_at_k" /\ pc = "returned"
    /\ Len(retrieved_docs) = 4
    /\ retrieved_docs[1].score = 700 /\ retrieved_docs[2].score = 900
    /\ precision_result # <<>>
    /\ Len(precision_result[1].details) = 3
    /\ precision_result[1].details[1].score = 700
    /\ precision_result[1].details[2].score = 900
    /\ precision_result[1].details[3].doc_num = 3

\* position j of the text is the first character of a sentence: a character
\* that is neither terminator nor whitespace, with no such character before it
\* since the last terminator
StartsSentence(text, j) ==
    /\ text[j] \notin {".", " "}
    /\ \A i \in 1..(j - 1) :
          text[i] \notin {".", " "} => \E m \in (i + 1)..(j - 1) : text[m] = "."

\* T: the non-empty, trimmed segments of the retrieved items' texts
SentenceTotal(docs) ==
    LET upto[i \in 0..Len(docs)] ==
            IF i = 0 THEN 0
            ELSE upto[i - 1] + Cardinality({j \in 1..Len(docs[i].text) :
                                               StartsSentence(docs[i].text, j)})
    IN  upto[Len(docs)]

\* C: the numeric tokens of the reply, a token being digits with no digit
\* before the first of them
NumericTokens(s) ==
    Cardinality({i \in 1..Len(s) :
                    s[i] \in {"0", "8"} /\ (i = 1 \/ s[i - 1] \notin {"0", "8"})})

\* C14: with T > 0 sentences retrieved and a reply other than NONE,
\* calculate_context_relevancy returns min(C / T, 1.0) rounded to 3 decimals,
\* C the number of numeric tokens of the reply, repeated ones included.
C14_RelevancyIsCappedRatio ==
    (/\ fn = "calculate_context_relevancy"
     /\ SentenceTotal(retrieved_docs) > 0
     /\ ~IsNoneReply(answer)) =>
        LET T == SentenceTotal(retrieved_docs)
            C == NumericTokens(answer)
        IN  /\ pc = "returned" /\ fault = "none"
            /\ context_relevancy # <<>>
            /\ 2 * Abs(T * context_relevancy[1] - 1000 * Min(C, T)) <= T
            /\ C >= T => context_relevancy[1] = 1000

\* three sentences retrieved and the reply 8,8: the same number twice counts
\* twice, and the score is 0.667
C14_Witness ==
    /\ fn = "calculate_context_relevancy" /\ pc = "returned"
    /\ SentenceTotal(retrieved_docs) = 3
    /\ answer = <<"8", ",", "8">>
    /\ context_relevancy = <<667>>

\* what a step of the dashboard does to chat_history: it changes only by a
\* Clear History, which empties it, or by the end of a successful evaluation,
\* which appends one entry for the question submitted, with its sources and
\* the metrics of that evaluation, overall_score among them; a submission that
\* fails leaves it as it was, and one that succeeds does append
HistoryStep ==
    /\ chat_history' # chat_history =>
         \/ pc = "idle" /\ pc' = "idle" /\ chat_history' = <<>>
         \/ /\ pc = "precision" /\ pc' = "idle" /\ fault' = "none"
            /\ Len(chat_history') = Len(chat_history) + 1
            /\ SubSeq(chat_history', 1, Len(chat_history)) = chat_history
            /\ LET entry == chat_history'[Len(chat_history')]
               IN  /\ entry.question = qi
                   /\ entry.sources = retrieved_docs
                   /\ ScoredInThisCall(entry.metrics)
                   /\ IsWeightedScore(entry.metrics.overall_score, entry.metrics)
    /\ (fault' # "none" /\ (fault' # fault \/ pc # "idle")) =>
         chat_history' = chat_history
    /\ (pc # "idle" /\ pc' = "idle" /\ fault' = "none") =>
         Len(chat_history') = Len(chat_history) + 1

\* C15 as stated: chat_history follows the submissions and clears, and the
\* Questions Asked figure always equals the length of chat_history.
C15_QuestionsAskedAlwaysIsLength ==
    /\ [][caller = "dashboard" => HistoryStep]_vars
    /\ [](caller = "dashboard" => QuestionsAsked = <<Len(chat_history)>>)

\* C15: chat_history holds one entry per successful submission since the last
\* clear, in submission order, each with its metrics and overall_score; a
\* failed submission leaves it unchanged and Clear History empties it; the
\* Questions Asked figure is shown only while chat_history is not empty, and
\* then it equals the length of chat_history.
C15_QuestionsAskedIsLengthWhenShown ==
    /\ [][caller = "dashboard" => HistoryStep]_vars
    /\ [](caller = "dashboard" =>
            /\ chat_history = <<>> => QuestionsAsked = <<>>
            /\ chat_history # <<>> => QuestionsAsked = <<Len(chat_history)>>
            /\ \A i \in 1..Len(chat_history) :
                  IsWeightedScore(chat_history[i].metrics.overall_score,
                                  chat_history[i].metrics))

\* question 2 was answered and recorded, then a later submission failed at a
\* judge call: the history still holds that one entry and the figure shows 1
C15_Witness ==
    /\ caller = "dashboard" /\ pc = "idle"
    /\ fault = "JudgeUnavailable"
    /\ Len(chat_history) = 1
    /\ chat_history[1].question = 2
    /\ QuestionsAsked = <<1>>

====
